---- MODULE Spec2Model ----
(***************************************************************************)
(* Model of pwbox (src/lib.rs): the password-based encryption container    *)
(* PwBox / RestoredPwBox, its seal / len / open / open_into operations,    *)
(* the SensitiveData buffer and the Eraser registry.                       *)
(*                                                                         *)
(* A call is executed statement by statement (pc), so that the order of    *)
(* the calls to the random source, the KDF and the cipher is observable.   *)
(* trace records those calls, released records every release of the       *)
(* storage of a SensitiveData together with the bytes it held then.        *)
(***************************************************************************)
EXTENDS Integers, Sequences, FiniteSets, TLC

\* ------------------------------------------------------------------ bounds
MaxSeed == 1
MaxMsgLen == 1
MaxTamperPos == 1
MaxEdits == 2

\* ------------------------------------------------------- program constants
BUFFER_SIZE == 256

\* Constants of the cipher backend (Cipher::KEY_LEN, NONCE_LEN, MAC_LEN) and
\* of the KDF backend (DeriveKey::salt_len); lib.rs only declares them.
KEY_LEN == 3
NONCE_LEN == 4
MAC_LEN == 2
SALT_LEN == 1

\* --------------------------------------------------------------- bytes
None == <<>>
Some(x) == <<x>>

RECURSIVE Xor(_, _)
Xor(a, b) ==
    IF a = 0 THEN b
    ELSE IF b = 0 THEN a
    ELSE (((a % 2) + (b % 2)) % 2) + 2 * Xor(a \div 2, b \div 2)

\* Sum of s[lo..hi] modulo 256, by halving.
RECURSIVE SumRange(_, _, _)
SumRange(s, lo, hi) ==
    IF lo > hi THEN 0
    ELSE IF lo = hi THEN s[lo]
    ELSE LET mid == (lo + hi) \div 2
         IN  (SumRange(s, lo, mid) + SumRange(s, mid + 1, hi)) % 256

SumBytes(s) == SumRange(s, 1, Len(s))

Zeros(n) == [i \in 1..n |-> 0]

AllZero(s) == \A i \in 1..Len(s) : s[i] = 0

\* Value of bit b of byte x, and x with bit b flipped.
Pow2(b) == CHOOSE p \in {1, 2, 4, 8, 16, 32, 64, 128} : p = 2 ^ b
FlipBit(x, b) == Xor(x, Pow2(b))
FlipAt(s, i, b) == [s EXCEPT ![i] = FlipBit(s[i], b)]

\* ------------------------------------------------------- SensitiveData
\* SmallVec<[u8; BUFFER_SIZE]>: the bytes live inside the value while they
\* fit the inline array and on the heap once they do not.
SensitiveData_zeros(len) ==
    [bytes |-> Zeros(len), spilled |-> len > BUFFER_SIZE]

\* Drop for SensitiveData: ClearOnDrop::new(&mut self.0) clears the SmallVec
\* value in place (clear_on_drop's Clear for a Default type: drop_in_place,
\* overwrite size_of_val(self) bytes with zero, write Default).  The inline
\* array is part of the value and is overwritten before the value goes away;
\* a heap allocation is returned to the allocator by drop_in_place and only
\* the pointer, length and capacity that referred to it are overwritten.
\* The result is the release event: which storage, and what it held.
SensitiveData_drop(name, sd) ==
    IF sd.spilled
    THEN [buf |-> name, storage |-> "heap", bytes |-> sd.bytes]
    ELSE [buf |-> name, storage |-> "inline", bytes |-> Zeros(Len(sd.bytes))]

\* ------------------------------------------------- random source (RngCore)
\* A deterministic stream per seed; fill_bytes(n) hands out the next n bytes.
RngByte(seed, k) == (97 * seed + 37 * k + 11) % 256
Rng_fill_bytes(r, n) ==
    [bytes |-> [i \in 1..n |-> RngByte(r.seed, r.pos + i)],
     rng |-> [seed |-> r.seed, pos |-> r.pos + n]]

\* -------------------------------------------------------------- KDF backend
\* A KDF value is one parameter set: [name, opslimit].
KdfName == "scrypt-nacl"
Kdf_default == [name |-> KdfName, opslimit |-> 2]
Kdf_light == [name |-> KdfName, opslimit |-> 1]
Kdf_invalid == [name |-> KdfName, opslimit |-> 0]
Kdfs == {Kdf_default, Kdf_light, Kdf_invalid}

K_salt_len(k) == SALT_LEN

\* derive_key(buf, password, salt): fills the whole of buf, or fails with a
\* backend-specific cause when the KDF was given invalid parameters.
K_derive_key(k, buflen, password, salt) ==
    IF k.opslimit = 0
    THEN [ok |-> FALSE, cause |-> "InvalidParams", buf |-> Zeros(buflen)]
    ELSE [ok |-> TRUE, cause |-> "",
          buf |-> [i \in 1..buflen |->
                     (k.opslimit + SumBytes(password) + 3 * SumBytes(salt) + i) % 256]]

\* ----------------------------------------------------------- cipher backend
CipherName == "xsalsa20-poly1305"

At(s, i) == s[((i - 1) % Len(s)) + 1]

Keystream(i, nonce, key) == Xor(At(key, i), At(nonce, i))

\* Keyed checksum over ciphertext and nonce, two bytes.
Mac(ciphertext, nonce, key) ==
    LET K == SumBytes(key)
        C == (SumBytes(ciphertext) + SumBytes(nonce) + Len(ciphertext)) % 256
    IN  <<(K + C) % 256, (K + 2 * C) % 256>>

\* Cipher::seal(message, nonce, key) -> CipherOutput
C_seal(message, nonce, key) ==
    LET ct == [i \in 1..Len(message) |-> Xor(message[i], Keystream(i, nonce, key))]
    IN  [ciphertext |-> ct, mac |-> Mac(ct, nonce, key)]

\* Cipher::open(output, encrypted, nonce, key) -> Result<(), ()>: verifies the
\* MAC first and writes output only when it verifies.
C_open(output, encrypted, nonce, key) ==
    IF encrypted.mac = Mac(encrypted.ciphertext, nonce, key)
    THEN [ok |-> TRUE,
          output |-> [i \in 1..Len(output) |->
                        IF i <= Len(encrypted.ciphertext)
                        THEN Xor(encrypted.ciphertext[i], Keystream(i, nonce, key))
                        ELSE output[i]]]
    ELSE [ok |-> FALSE, output |-> output]

\* ------------------------------------------------ handles: static and erased
\* K / Box<dyn DeriveKey> and CipherObject<C> / Box<dyn ObjectSafeCipher>.
KdfHandle(k, boxed) == [boxed |-> boxed, kdf |-> k]
CipherHandle(boxed) == [boxed |-> boxed, cipher |-> CipherName]

BoxDeriveKey_salt_len(h) == K_salt_len(h.kdf)
BoxDeriveKey_derive_key_swapped(h, buflen, password, salt) ==
    K_derive_key(h.kdf, buflen, salt, password)

BoxDeriveKey_derive_key(h, buflen, password, salt) ==
    K_derive_key(h.kdf, buflen, password, salt)

DeriveKey_salt_len(h) ==
    IF h.boxed THEN BoxDeriveKey_salt_len(h) ELSE K_salt_len(h.kdf)
DeriveKey_derive_key(h, buflen, password, salt) ==
    IF h.boxed THEN BoxDeriveKey_derive_key(h, buflen, password, salt)
    ELSE K_derive_key(h.kdf, buflen, password, salt)

CipherObject_key_len(c) == KEY_LEN
CipherObject_nonce_len(c) == NONCE_LEN
CipherObject_mac_len(c) == MAC_LEN
CipherObject_seal(c, message, nonce, key) == C_seal(message, nonce, key)
CipherObject_open_swapped(c, output, encrypted, nonce, key) ==
    C_open(output, encrypted, key, nonce)

CipherObject_open(c, output, encrypted, nonce, key) ==
    C_open(output, encrypted, nonce, key)

BoxCipher_key_len(h) == CipherObject_key_len(h.cipher)
BoxCipher_nonce_len(h) == CipherObject_nonce_len(h.cipher)
BoxCipher_mac_len_nonce(h) == CipherObject_nonce_len(h.cipher)

BoxCipher_mac_len(h) == CipherObject_mac_len(h.cipher)
BoxCipher_seal_swapped(h, message, nonce, key) ==
    CipherObject_seal(h.cipher, message, key, nonce)

BoxCipher_seal(h, message, nonce, key) ==
    CipherObject_seal(h.cipher, message, nonce, key)
BoxCipher_open(h, output, encrypted, nonce, key) ==
    CipherObject_open(h.cipher, output, encrypted, nonce, key)

Cipher_key_len(h) ==
    IF h.boxed THEN BoxCipher_key_len(h) ELSE CipherObject_key_len(h.cipher)
Cipher_nonce_len(h) ==
    IF h.boxed THEN BoxCipher_nonce_len(h) ELSE CipherObject_nonce_len(h.cipher)
Cipher_mac_len(h) ==
    IF h.boxed THEN BoxCipher_mac_len(h) ELSE CipherObject_mac_len(h.cipher)
Cipher_seal(h, message, nonce, key) ==
    IF h.boxed THEN BoxCipher_seal(h, message, nonce, key)
    ELSE CipherObject_seal(h.cipher, message, nonce, key)
Cipher_open(h, output, encrypted, nonce, key) ==
    IF h.boxed THEN BoxCipher_open(h, output, encrypted, nonce, key)
    ELSE CipherObject_open(h.cipher, output, encrypted, nonce, key)

\* ------------------------------------------------------------------ inputs
\* Passwords to seal with, and to try to open with: <<2, 1>> is a wrong
\* password that the KDF backend maps to the key of <<1, 2>>.
Passwords == {<<>>, <<1, 2>>}
OpenPasswords == Passwords \cup {<<2, 1>>}

Msg(n) == [i \in 1..n |-> (41 * i + 3) % 256]
Messages ==
    {Msg(n) : n \in 0..MaxMsgLen} \cup {Msg(BUFFER_SIZE), Msg(BUFFER_SIZE + 1)}

Seeds == 0..MaxSeed


\* ------------------------------------------------------------------- state
VARIABLES
    pc,        \* position inside the running call, "idle" between calls
    call,      \* the running (or last) call and its arguments
    frame,     \* the SensitiveData locals of the running call
    rng,       \* the caller-supplied random source
    trace,     \* calls made to the random source, the KDF and the cipher
    released,  \* SensitiveData storage released during the call, in order
    result,    \* what the last call returned
    pwbox,     \* the container the caller holds (PwBox or RestoredPwBox)
    held,      \* the SensitiveData a successful open() returned to the caller
    outbuf,    \* the caller's buffer passed to open_into
    erased,    \* the ErasedPwBox the caller holds
    eraser     \* the Eraser: names of the registered KDFs and ciphers

vars == <<pc, call, frame, rng, trace, released, result, pwbox, held, outbuf,
          erased, eraser>>

NoCall == [op |-> "none", password |-> <<>>, message |-> <<>>,
           kdf |-> KdfHandle(Kdf_default, FALSE), cipher |-> CipherHandle(FALSE)]
NoFrame == [salt |-> None, nonce |-> None, key |-> None, output |-> None]
NoResult == [tag |-> "None", err |-> "", cause |-> "", data |-> <<>>]

Ok(data) == [tag |-> "Ok", err |-> "", cause |-> "", data |-> data]
Err(err, cause) == [tag |-> "Err", err |-> err, cause |-> cause, data |-> <<>>]
Panic == [tag |-> "Panic", err |-> "", cause |-> "", data |-> <<>>]

Event(fn, len, x, y, ok) == [fn |-> fn, len |-> len, x |-> x, y |-> y, ok |-> ok]

Init ==
    /\ pc = "idle"
    /\ call = NoCall
    /\ frame = NoFrame
    /\ rng = [seed |-> 0, pos |-> 0]
    /\ trace = <<>>
    /\ released = <<>>
    /\ result = NoResult
    /\ pwbox = None
    /\ held = None
    /\ outbuf = <<>>
    /\ erased = None
    /\ eraser = [kdfs |-> {}, ciphers |-> {}]

\* A call starts from the caller's side; pc = "done" is the state right after a
\* call returned, where the caller looks at the result.
Enter(c, next) ==
    /\ pc = "idle"
    /\ held = None
    /\ pc' = next
    /\ call' = c
    /\ trace' = <<>>
    /\ released' = <<>>

\* ------------------------------------------------------------ PwBox::new
\* (K::default(), CipherObject::default()), then PwBoxInner::seal.
PwBox_new ==
    \E password \in Passwords, message \in Messages, seed \in Seeds :
        /\ Enter([op |-> "seal", password |-> password, message |-> message,
                  kdf |-> KdfHandle(Kdf_default, FALSE),
                  cipher |-> CipherHandle(FALSE)], "seal_salt")
        /\ pwbox = None
        /\ erased = None
        /\ frame' = NoFrame
        /\ result' = NoResult
        /\ rng' = [seed |-> seed, pos |-> 0]
        /\ UNCHANGED <<pwbox, held, outbuf, erased, eraser>>

\* -------------------------------------------------- PwBoxBuilder::seal
\* self.kdf.clone().unwrap_or_default(); custom is the builder's kdf field.
PwBoxBuilder_kdf(custom) == IF custom = None THEN Kdf_default ELSE custom[1]

PwBoxBuilder_seal ==
    \E custom \in {None} \cup {Some(k) : k \in Kdfs},
       password \in Passwords, message \in Messages, seed \in Seeds :
        /\ Enter([op |-> "seal", password |-> password, message |-> message,
                  kdf |-> KdfHandle(PwBoxBuilder_kdf(custom), FALSE),
                  cipher |-> CipherHandle(FALSE)], "seal_salt")
        /\ pwbox = None
        /\ erased = None
        /\ frame' = NoFrame
        /\ result' = NoResult
        /\ rng' = [seed |-> seed, pos |-> 0]
        /\ UNCHANGED <<pwbox, held, outbuf, erased, eraser>>

\* ----------------------------------------------------- PwBoxInner::seal
\* let mut salt = SensitiveData::zeros(kdf.salt_len()); rng.fill_bytes(..)
Seal_salt ==
    /\ pc = "seal_salt"
    /\ LET n == DeriveKey_salt_len(call.kdf)
           r == Rng_fill_bytes(rng, n)
           sd == SensitiveData_zeros(n)
       IN  /\ frame' = [frame EXCEPT !.salt = Some([sd EXCEPT !.bytes = r.bytes])]
           /\ rng' = r.rng
           /\ trace' = Append(trace, Event("fill_bytes", n, r.bytes, <<>>, TRUE))
    /\ pc' = "seal_nonce"
    /\ UNCHANGED <<call, released, result, pwbox, held, outbuf, erased, eraser>>

\* let mut nonce = SensitiveData::zeros(cipher.nonce_len()); rng.fill_bytes(..)
Seal_nonce ==
    /\ pc = "seal_nonce"
    /\ LET n == Cipher_nonce_len(call.cipher)
           r == Rng_fill_bytes(rng, n)
           sd == SensitiveData_zeros(n)
       IN  /\ frame' = [frame EXCEPT !.nonce = Some([sd EXCEPT !.bytes = r.bytes])]
           /\ rng' = r.rng
           /\ trace' = Append(trace, Event("fill_bytes", n, r.bytes, <<>>, TRUE))
    /\ pc' = "seal_key"
    /\ UNCHANGED <<call, released, result, pwbox, held, outbuf, erased, eraser>>

\* The locals of seal go out of scope in reverse order of declaration.
Seal_drops(f) ==
    <<SensitiveData_drop("key", f.key[1]),
      SensitiveData_drop("nonce", f.nonce[1]),
      SensitiveData_drop("salt", f.salt[1])>>

\* let mut key = SensitiveData::zeros(cipher.key_len());
\* kdf.derive_key(&mut *key.0, password.as_ref(), &*salt)?;
Seal_derive_key ==
    /\ pc = "seal_key"
    /\  LET n == Cipher_key_len(call.cipher)
            sd == SensitiveData_zeros(n)
            d == DeriveKey_derive_key(call.kdf, n, call.password,
                                      frame.salt[1].bytes)
            f == [frame EXCEPT !.key = Some([sd EXCEPT !.bytes = d.buf])]
        IN  /\ trace' = Append(trace,
                   Event("derive_key", n, frame.salt[1].bytes, call.password, d.ok))
            /\ IF d.ok
               THEN /\ frame' = f
                    /\ pc' = "seal_cipher"
                    /\ UNCHANGED <<released, result>>
               ELSE /\ frame' = NoFrame
                    /\ released' = released \o Seal_drops(f)
                    /\ result' = Err("Fail", d.cause)
                    /\ pc' = "done"
    /\ UNCHANGED <<call, rng, pwbox, held, outbuf, erased, eraser>>

\* The container assembled by seal; origin is history, not a field of the
\* program: the password, message and key the container was sealed with and
\* the number of bits flipped in it since.
PwBoxInner_new_swapped(salt, nonce, encrypted, kdf, cipher, origin) ==
    [salt |-> nonce, nonce |-> salt, encrypted |-> encrypted,
     kdf |-> kdf, cipher |-> cipher, origin |-> origin]

PwBoxInner_new(salt, nonce, encrypted, kdf, cipher, origin) ==
    [salt |-> salt, nonce |-> nonce, encrypted |-> encrypted,
     kdf |-> kdf, cipher |-> cipher, origin |-> origin]

\* let encrypted = cipher.seal(message.as_ref(), &*nonce, &*key);
\* Ok(PwBoxInner { salt: salt[..].to_vec(), nonce: nonce[..].to_vec(), .. })
Seal_cipher ==
    /\ pc = "seal_cipher"
    /\ LET nonce == frame.nonce[1].bytes
           key == frame.key[1].bytes
           encrypted == Cipher_seal(call.cipher, call.message, nonce, key)
       IN  /\ trace' = Append(trace,
                  Event("cipher_seal", Len(call.message), nonce, key, TRUE))
           /\ pwbox' = Some(PwBoxInner_new(frame.salt[1].bytes, nonce, encrypted,
                             call.kdf, call.cipher,
                             [password |-> call.password, message |-> call.message,
                              key |-> key, flips |-> 0, edits |-> 0]))
    /\ released' = released \o Seal_drops(frame)
    /\ frame' = NoFrame
    /\ result' = Ok(<<>>)
    /\ pc' = "done"
    /\ UNCHANGED <<call, rng, held, outbuf, erased, eraser>>

\* ------------------------------------------------------ PwBoxInner::len
PwBoxInner_len_mac(b) == Len(b.encrypted.mac)

PwBoxInner_len(b) == Len(b.encrypted.ciphertext)

PwBox_len(b) == PwBoxInner_len(b)
RestoredPwBox_len(b) == PwBoxInner_len(b)

IsRestored(b) == b.kdf.boxed

\* ----------------------------------------------------- PwBoxInner::open
\* let mut output = SensitiveData::zeros(self.len());
\* self.open_into(&mut *output.0, password)
PwBoxInner_open(password) ==
    /\ Enter([op |-> "open", password |-> password, message |-> <<>>,
              kdf |-> pwbox[1].kdf, cipher |-> pwbox[1].cipher], "open_into_assert")
    /\ frame' = [NoFrame EXCEPT
                   !.output = Some(SensitiveData_zeros(PwBoxInner_len(pwbox[1])))]
    /\ result' = NoResult
    /\ UNCHANGED <<rng, pwbox, held, outbuf, erased, eraser>>

PwBox_open ==
    /\ pwbox # None
    /\ ~IsRestored(pwbox[1])
    /\ \E password \in OpenPasswords : PwBoxInner_open(password)

RestoredPwBox_open ==
    /\ pwbox # None
    /\ IsRestored(pwbox[1])
    /\ \E password \in OpenPasswords : PwBoxInner_open(password)

\* ------------------------------------------------- PwBoxInner::open_into
\* The caller's buffer: any length, filled with a pattern of its own.
CallerBuffer(n) == [i \in 1..n |-> 170]
OutLens(len) == {0, len, len + 1}

PwBoxInner_open_into_enter(n, password) ==
    /\ Enter([op |-> "open_into", password |-> password, message |-> <<>>,
              kdf |-> pwbox[1].kdf, cipher |-> pwbox[1].cipher], "open_into_assert")
    /\ frame' = NoFrame
    /\ result' = NoResult
    /\ outbuf' = CallerBuffer(n)
    /\ UNCHANGED <<rng, pwbox, held, erased, eraser>>

PwBox_open_into ==
    /\ pwbox # None
    /\ ~IsRestored(pwbox[1])
    /\ \E password \in OpenPasswords, n \in OutLens(PwBox_len(pwbox[1])) :
           PwBoxInner_open_into_enter(n, password)

RestoredPwBox_open_into ==
    /\ pwbox # None
    /\ IsRestored(pwbox[1])
    /\ \E password \in OpenPasswords, n \in OutLens(RestoredPwBox_len(pwbox[1])) :
           PwBoxInner_open_into_enter(n, password)

\* output.as_mut(): the slice open_into writes to.
Output == IF call.op = "open" THEN frame.output[1].bytes ELSE outbuf

\* Where open_into returns to: open() continues with its map, a direct call
\* is over.
OpenIntoReturn == IF call.op = "open" THEN "open_ret" ELSE "done"

\* The condition of assert_eq!(output.as_mut().len(), self.len(), ..)
OpenInto_fits_lenient(outlen, len) == outlen >= len

OpenInto_fits(outlen, len) == outlen = len

\* assert_eq!(output.as_mut().len(), self.len(), ..)
OpenInto_assert ==
    /\ pc = "open_into_assert"
    /\ IF OpenInto_fits(Len(Output), PwBoxInner_len(pwbox[1]))
       THEN /\ pc' = "open_into_key"
            /\ UNCHANGED <<frame, released, result>>
       ELSE \* panic: the stack unwinds through open_into and its caller
            /\ pc' = "done"
            /\ result' = Panic
            /\ released' = IF frame.output = None THEN released
                           ELSE Append(released,
                                       SensitiveData_drop("output", frame.output[1]))
            /\ frame' = NoFrame
    /\ UNCHANGED <<call, rng, trace, pwbox, held, outbuf, erased, eraser>>

\* .map_err(Error::DeriveKey) on the failure of derive_key
OpenInto_derive_err_mac(cause) == Err("MacMismatch", "")

OpenInto_derive_err(cause) == Err("DeriveKey", cause)

\* let key_len = self.cipher.key_len();
\* let mut key = SensitiveData::zeros(key_len);
\* self.kdf.derive_key(&mut *key.0, password.as_ref(), &self.salt)
\*     .map_err(Error::DeriveKey)?;
OpenInto_derive_key ==
    /\ pc = "open_into_key"
    /\  LET key_len == Cipher_key_len(pwbox[1].cipher)
            sd == SensitiveData_zeros(key_len)
            d == DeriveKey_derive_key(pwbox[1].kdf, key_len, call.password,
                                      pwbox[1].salt)
            key == [sd EXCEPT !.bytes = d.buf]
        IN  /\ trace' = Append(trace,
                   Event("derive_key", key_len, pwbox[1].salt, call.password, d.ok))
            /\ IF d.ok
               THEN /\ frame' = [frame EXCEPT !.key = Some(key)]
                    /\ pc' = "open_into_cipher"
                    /\ UNCHANGED <<released, result>>
               ELSE /\ frame' = [frame EXCEPT !.key = None]
                    /\ released' = Append(released, SensitiveData_drop("key", key))
                    /\ result' = OpenInto_derive_err(d.cause)
                    /\ pc' = OpenIntoReturn
    /\ UNCHANGED <<call, rng, pwbox, held, outbuf, erased, eraser>>

\* .map_err(|()| Error::MacMismatch) on the Result<(), ()> of cipher.open
OpenInto_map_err_ignored(ok) == Ok(<<>>)

OpenInto_map_err_derive(ok) == IF ok THEN Ok(<<>>) ELSE Err("DeriveKey", "")

OpenInto_map_err(ok) == IF ok THEN Ok(<<>>) ELSE Err("MacMismatch", "")

\* self.cipher.open(output.as_mut(), &self.encrypted, &self.nonce, &*key)
\*     .map_err(|()| Error::MacMismatch)
OpenInto_cipher ==
    /\ pc = "open_into_cipher"
    /\ LET key == frame.key[1]
           o == Cipher_open(pwbox[1].cipher, Output, pwbox[1].encrypted,
                            pwbox[1].nonce, key.bytes)
       IN  /\ trace' = Append(trace,
                  Event("cipher_open", Len(Output), pwbox[1].nonce, key.bytes, o.ok))
           /\ IF call.op = "open"
              THEN /\ frame' = [frame EXCEPT !.key = None,
                                             !.output = Some([@[1] EXCEPT !.bytes = o.output])]
                   /\ UNCHANGED outbuf
              ELSE /\ frame' = [frame EXCEPT !.key = None]
                   /\ outbuf' = o.output
           /\ released' = Append(released, SensitiveData_drop("key", key))
           /\ result' = OpenInto_map_err(o.ok)
    /\ pc' = OpenIntoReturn
    /\ UNCHANGED <<call, rng, pwbox, held, erased, eraser>>

\* self.open_into(&mut *output.0, password).map(|()| output)
Open_ret ==
    /\ pc = "open_ret"
    /\ IF result.tag = "Ok"
       THEN /\ held' = frame.output
            /\ result' = Ok(frame.output[1].bytes)
            /\ UNCHANGED released
       ELSE /\ released' = Append(released,
                                  SensitiveData_drop("output", frame.output[1]))
            /\ UNCHANGED <<held, result>>
    /\ frame' = NoFrame
    /\ pc' = "done"
    /\ UNCHANGED <<call, rng, trace, pwbox, outbuf, erased, eraser>>

\* The caller lets go of the plaintext a successful open() returned.
DropPlaintext ==
    /\ pc = "done"
    /\ held # None
    /\ released' = Append(released, SensitiveData_drop("plaintext", held[1]))
    /\ held' = None
    /\ UNCHANGED <<pc, call, frame, rng, trace, result, pwbox, outbuf, erased, eraser>>

\* The caller is done with the result and with its buffer.
Return ==
    /\ pc = "done"
    /\ held = None
    /\ pc' = "idle"
    /\ call' = NoCall
    /\ result' = NoResult
    /\ trace' = <<>>
    /\ released' = <<>>
    /\ outbuf' = <<>>
    /\ UNCHANGED <<frame, rng, pwbox, held, erased, eraser>>

\* ------------------------------------------------------------------ Eraser
\* The registry maps names to constructors; what matters here is which names
\* are registered.  Registration is setup: it precedes the use of the Eraser.
Setup == pc = "idle" /\ pwbox = None /\ erased = None /\ held = None

Eraser_add_kdf ==
    /\ Setup
    /\ KdfName \notin eraser.kdfs
    /\ eraser' = [eraser EXCEPT !.kdfs = @ \cup {KdfName}]
    /\ UNCHANGED <<pc, call, frame, rng, trace, released, result, pwbox, held,
                   outbuf, erased>>

Eraser_add_cipher ==
    /\ Setup
    /\ CipherName \notin eraser.ciphers
    /\ eraser' = [eraser EXCEPT !.ciphers = @ \cup {CipherName}]
    /\ UNCHANGED <<pc, call, frame, rng, trace, released, result, pwbox, held,
                   outbuf, erased>>

\* add_suite registers the suite's KDF and cipher under their names.
Eraser_add_suite ==
    /\ Setup
    /\ eraser.kdfs = {} /\ eraser.ciphers = {}
    /\ eraser' = [kdfs |-> {KdfName}, ciphers |-> {CipherName}]
    /\ UNCHANGED <<pc, call, frame, rng, trace, released, result, pwbox, held,
                   outbuf, erased>>

\* erase(pwbox) -> ErasedPwBox: the names of the algorithms, the parameters of
\* the KDF, and salt, nonce, ciphertext and mac copied verbatim.
ErasedPwBox(b) ==
    [kdf |-> [name |-> b.kdf.kdf.name, params |-> Some(b.kdf.kdf.opslimit)],
     cipher |-> [name |-> b.cipher.cipher],
     salt |-> b.salt, nonce |-> b.nonce,
     ciphertext |-> b.encrypted.ciphertext, mac |-> b.encrypted.mac,
     origin |-> b.origin]

Eraser_erase_result(e, b) ==
    IF b.kdf.kdf.name \notin e.kdfs THEN Err("NoKdf", b.kdf.kdf.name)
    ELSE IF b.cipher.cipher \notin e.ciphers THEN Err("NoCipher", b.cipher.cipher)
    ELSE Ok(<<>>)

\* The typed box is passed by value: it is gone after the call either way.
Eraser_erase ==
    /\ pwbox # None
    /\ ~IsRestored(pwbox[1])
    /\ Enter([NoCall EXCEPT !.op = "erase"], "done")
    /\ LET r == Eraser_erase_result(eraser, pwbox[1])
       IN  /\ result' = r
           /\ erased' = IF r.tag = "Ok" THEN Some(ErasedPwBox(pwbox[1])) ELSE None
    /\ pwbox' = None
    /\ UNCHANGED <<frame, rng, held, outbuf, eraser>>

\* restore(&erased) -> RestoredPwBox: look the KDF up and parse its
\* parameters, look the cipher up, then check the three lengths.
Eraser_restore_result(e, r) ==
    IF r.kdf.name \notin e.kdfs THEN Err("NoKdf", r.kdf.name)
    ELSE IF r.kdf.params = None THEN Err("KdfParams", "")
    ELSE IF r.cipher.name \notin e.ciphers THEN Err("NoCipher", r.cipher.name)
    ELSE LET kdf == KdfHandle([name |-> r.kdf.name, opslimit |-> r.kdf.params[1]], TRUE)
             cipher == CipherHandle(TRUE)
         IN  IF Len(r.salt) # DeriveKey_salt_len(kdf) THEN Err("SaltLen", "")
             ELSE IF Len(r.nonce) # Cipher_nonce_len(cipher) THEN Err("NonceLen", "")
             ELSE IF Len(r.mac) # Cipher_mac_len(cipher) THEN Err("MacLen", "")
             ELSE Ok(<<>>)

RestoredPwBox(r) ==
    [salt |-> r.salt, nonce |-> r.nonce,
     encrypted |-> [ciphertext |-> r.ciphertext, mac |-> r.mac],
     kdf |-> KdfHandle([name |-> r.kdf.name, opslimit |-> r.kdf.params[1]], TRUE),
     cipher |-> CipherHandle(TRUE),
     origin |-> r.origin]

Eraser_restore ==
    /\ erased # None
    /\ pwbox = None
    /\ Enter([NoCall EXCEPT !.op = "restore"], "done")
    /\ LET r == Eraser_restore_result(eraser, erased[1])
       IN  /\ result' = r
           /\ pwbox' = IF r.tag = "Ok" THEN Some(RestoredPwBox(erased[1])) ELSE None
    /\ UNCHANGED <<frame, rng, held, outbuf, erased, eraser>>

\* ------------------------------------------------------------ corruption
\* The record is what is stored and transmitted; this is where it is damaged.
\* origin.flips counts the bits flipped in ciphertext and mac, origin.edits
\* the other changes made to the record.
Stored == pc = "idle" /\ held = None /\ pwbox = None /\ erased # None

\* One bit of the stored ciphertext or of the stored MAC flips.
TamperPos(s) == {i \in 1..Len(s) : i <= MaxTamperPos \/ i = Len(s)}

Tamper ==
    /\ Stored
    /\ erased[1].origin.flips = 0
    /\ erased[1].origin.edits = 0
    /\ \E b \in 0..7 :
        \/ \E i \in TamperPos(erased[1].ciphertext) :
             erased' = Some([erased[1] EXCEPT !.ciphertext = FlipAt(@, i, b),
                                              !.origin.flips = 1])
        \/ \E i \in TamperPos(erased[1].mac) :
             erased' = Some([erased[1] EXCEPT !.mac = FlipAt(@, i, b),
                                              !.origin.flips = 1])
    /\ UNCHANGED <<pc, call, frame, rng, trace, released, result, pwbox, held,
                   outbuf, eraser>>

\* A byte is lost from or added to salt, nonce or mac; an algorithm name or
\* the KDF parameters become unreadable; the parameters become invalid.
Shorter(s) == IF Len(s) = 0 THEN s ELSE SubSeq(s, 1, Len(s) - 1)
Longer(s) == Append(s, 0)
Resized(s) == {Shorter(s), Longer(s)} \ {s}

Corrupt ==
    /\ Stored
    /\ erased[1].origin.flips = 0
    /\ erased[1].origin.edits < MaxEdits
    /\ LET r == [erased[1] EXCEPT !.origin.edits = @ + 1]
       IN  \/ \E x \in Resized(r.salt) : erased' = Some([r EXCEPT !.salt = x])
           \/ \E x \in Resized(r.nonce) : erased' = Some([r EXCEPT !.nonce = x])
           \/ \E x \in Resized(r.mac) : erased' = Some([r EXCEPT !.mac = x])
           \/ erased' = Some([r EXCEPT !.kdf.name = "unknown-kdf"])
           \/ erased' = Some([r EXCEPT !.cipher.name = "unknown-cipher"])
           \/ erased' = Some([r EXCEPT !.kdf.params = None])
           \/ /\ r.kdf.params # Some(0)
              /\ erased' = Some([r EXCEPT !.kdf.params = Some(0)])
    /\ UNCHANGED <<pc, call, frame, rng, trace, released, result, pwbox, held,
                   outbuf, eraser>>

Next ==
    \/ PwBox_new
    \/ PwBoxBuilder_seal
    \/ Seal_salt
    \/ Seal_nonce
    \/ Seal_derive_key
    \/ Seal_cipher
    \/ PwBox_open
    \/ PwBox_open_into
    \/ RestoredPwBox_open
    \/ RestoredPwBox_open_into
    \/ OpenInto_assert
    \/ OpenInto_derive_key
    \/ OpenInto_cipher
    \/ Open_ret
    \/ DropPlaintext
    \/ Return
    \/ Eraser_add_kdf
    \/ Eraser_add_cipher
    \/ Eraser_add_suite
    \/ Eraser_erase
    \/ Eraser_restore
    \/ Tamper
    \/ Corrupt

Spec == Init /\ [][Next]_vars


\* ================================================================== claims
HasBox == pwbox # None
Origin == pwbox[1].origin
Intact == Origin.flips = 0 /\ Origin.edits = 0
Opening == call.op \in {"open", "open_into"}
Called(fn) == \E i \in 1..Len(trace) : trace[i].fn = fn
Untouched(buf) == buf = CallerBuffer(Len(buf))

\* The key the last open derived, as handed to cipher.open.
OpenKey == (CHOOSE i \in 1..Len(trace) : trace[i].fn = "cipher_open")

\* C1: sealing a message under a password with PwBox::new or
\* PwBoxBuilder::seal and opening the resulting box with the same password
\* succeeds and returns exactly the bytes of the message, the empty message
\* included.
C1_RoundTrip ==
    (pc = "done" /\ call.op = "open" /\ HasBox /\ ~IsRestored(pwbox[1])
        /\ call.password = Origin.password)
    => result = Ok(Origin.message)

C1_Witness ==
    /\ pc = "done" /\ call.op = "open" /\ HasBox /\ ~IsRestored(pwbox[1])
    /\ call.password = Origin.password
    /\ Len(Origin.message) > 0
    /\ result = Ok(Origin.message)

\* C2: opening an undamaged box with a password other than the one it was
\* sealed with, whose derived key differs, fails with Error::MacMismatch and
\* yields no plaintext: nothing is returned and the output is not written.
C2_WrongPassword ==
    (pc = "done" /\ Opening /\ HasBox /\ Intact /\ Called("cipher_open")
        /\ call.password # Origin.password
        /\ trace[OpenKey].y # Origin.key)
    => /\ result = Err("MacMismatch", "")
       /\ held = None
       /\ call.op = "open_into" => Untouched(outbuf)

C2_Witness ==
    /\ pc = "done" /\ call.op = "open" /\ HasBox /\ Intact /\ Called("cipher_open")
    /\ call.password # Origin.password
    /\ trace[OpenKey].y # Origin.key
    /\ Len(Origin.message) > 0
    /\ result = Err("MacMismatch", "")

\* C3: once a single bit of the stored ciphertext or of the stored MAC is
\* flipped, open and open_into fail with Error::MacMismatch for every
\* password, the right one included, and no plaintext comes out.
C3_TamperDetected ==
    (pc = "done" /\ Opening /\ HasBox /\ Origin.flips = 1 /\ result.tag # "Panic")
    => /\ result = Err("MacMismatch", "")
       /\ Called("cipher_open")
       /\ held = None
       /\ call.op = "open_into" => Untouched(outbuf)

C3_Witness ==
    /\ pc = "done" /\ call.op = "open" /\ HasBox /\ Origin.flips = 1
    /\ call.password = Origin.password
    /\ pwbox[1].encrypted.ciphertext # C_seal(Origin.message, pwbox[1].nonce, Origin.key).ciphertext
    /\ result = Err("MacMismatch", "")

\* C4: len() of a box, typed or restored, is the length of the stored
\* ciphertext, and that is the length of the message that was sealed.
C4_LenIsMessageLen ==
    HasBox =>
        LET n == IF IsRestored(pwbox[1]) THEN RestoredPwBox_len(pwbox[1])
                 ELSE PwBox_len(pwbox[1])
        IN  /\ n = Len(pwbox[1].encrypted.ciphertext)
            /\ n = Len(Origin.message)

C4_Witness ==
    /\ HasBox /\ IsRestored(pwbox[1])
    /\ RestoredPwBox_len(pwbox[1]) = BUFFER_SIZE + 1
    /\ Len(Origin.message) = BUFFER_SIZE + 1

\* C5: open_into with an output buffer whose length is not len() panics: it
\* returns no Error value, and neither the KDF nor the cipher has been called
\* nor the buffer written when it does.
C5_WrongBufferAborts ==
    (pc = "done" /\ call.op = "open_into" /\ HasBox
        /\ Len(outbuf) # PwBoxInner_len(pwbox[1]))
    => /\ result = Panic
       /\ trace = <<>>
       /\ Untouched(outbuf)

C5_Witness ==
    /\ pc = "done" /\ call.op = "open_into" /\ HasBox
    /\ Len(outbuf) = PwBoxInner_len(pwbox[1]) + 1
    /\ result = Panic


\* C6: with the KDF and the cipher of the box registered, erase succeeds,
\* restore of the undamaged record succeeds, and opening the restored box
\* with the password it was sealed with returns exactly the message.
Registered(e, kdfName, cipherName) ==
    kdfName \in e.kdfs /\ cipherName \in e.ciphers

C6_EraseRestoreRoundTrip ==
    /\ (pc = "done" /\ call.op = "erase" /\ Registered(eraser, KdfName, CipherName))
       => (result.tag = "Ok" /\ erased # None)
    /\ (pc = "done" /\ call.op = "restore" /\ erased # None
           /\ erased[1].origin.flips = 0 /\ erased[1].origin.edits = 0
           /\ Registered(eraser, erased[1].kdf.name, erased[1].cipher.name))
       => (result.tag = "Ok" /\ HasBox /\ IsRestored(pwbox[1]))
    /\ (pc = "done" /\ call.op = "open" /\ HasBox /\ IsRestored(pwbox[1]) /\ Intact
           /\ call.password = Origin.password)
       => result = Ok(Origin.message)

C6_Witness ==
    /\ pc = "done" /\ call.op = "open" /\ HasBox /\ IsRestored(pwbox[1]) /\ Intact
    /\ call.password = Origin.password
    /\ pwbox[1].kdf.kdf = Kdf_light
    /\ Len(Origin.message) > 0
    /\ result = Ok(Origin.message)

\* C7: restore of a record whose algorithms are registered and whose KDF
\* parameters parse, but whose salt, nonce or MAC has the wrong length, fails
\* with the length error of a field that has the wrong length; neither the
\* KDF nor the cipher has been called, and no restored box exists.
LengthErrors(r) ==
    (IF Len(r.salt) # SALT_LEN THEN {"SaltLen"} ELSE {})
    \cup (IF Len(r.nonce) # NONCE_LEN THEN {"NonceLen"} ELSE {})
    \cup (IF Len(r.mac) # MAC_LEN THEN {"MacLen"} ELSE {})

C7_BadLengthRejected ==
    (pc = "done" /\ call.op = "restore" /\ erased # None
        /\ Registered(eraser, erased[1].kdf.name, erased[1].cipher.name)
        /\ erased[1].kdf.params # None
        /\ LengthErrors(erased[1]) # {})
    => /\ result.tag = "Err"
       /\ result.err \in LengthErrors(erased[1])
       /\ trace = <<>>
       /\ pwbox = None

C7_Witness ==
    /\ pc = "done" /\ call.op = "restore" /\ erased # None
    /\ Len(erased[1].salt) = SALT_LEN
    /\ Len(erased[1].nonce) = NONCE_LEN
    /\ Len(erased[1].mac) = MAC_LEN + 2
    /\ result = Err("MacLen", "")

\* C8: every SensitiveData, inline or spilled to the heap, holds only zero
\* bytes when its storage is released, on every exit path of seal, open and
\* open_into and when the caller drops the plaintext.
C8_ZeroedBeforeRelease ==
    \A i \in 1..Len(released) : AllZero(released[i].bytes)

\* C9: a failure of derive_key stops the call before the cipher is used.
\* seal returns the failure and produces no container; open and open_into
\* return Error::DeriveKey with the cause, never Error::MacMismatch, and leave
\* the output unwritten.
KdfFailed == \E i \in 1..Len(trace) : trace[i].fn = "derive_key" /\ ~trace[i].ok

C9_KdfFailureStops ==
    /\ (pc = "done" /\ call.op = "seal" /\ KdfFailed)
       => /\ result = Err("Fail", "InvalidParams")
          /\ ~Called("cipher_seal")
          /\ pwbox = None
    /\ (pc = "done" /\ Opening /\ KdfFailed)
       => /\ result = Err("DeriveKey", "InvalidParams")
          /\ ~Called("cipher_open")
          /\ held = None
          /\ call.op = "open_into" => Untouched(outbuf)

C9_Witness ==
    /\ pc = "done" /\ call.op = "open_into" /\ KdfFailed
    /\ Len(outbuf) > 0
    /\ result = Err("DeriveKey", "InvalidParams")

\* C10: a container holds a salt of kdf.salt_len() bytes and a nonce of
\* cipher.nonce_len() bytes.  seal draws the salt from the random source
\* first and the nonce second, derives a key of cipher.key_len() bytes from
\* that salt, encrypts with that nonce and key, and stores that salt and that
\* nonce; open derives the key from the stored salt and decrypts with the
\* stored nonce.
Drawn(seed, from, n) == [i \in 1..n |-> RngByte(seed, from + i)]

C10_SaltAndNonce ==
    /\ HasBox
       => /\ Len(pwbox[1].salt) = SALT_LEN
          /\ Len(pwbox[1].nonce) = NONCE_LEN
          /\ Len(pwbox[1].salt) = DeriveKey_salt_len(pwbox[1].kdf)
          /\ Len(pwbox[1].nonce) = Cipher_nonce_len(pwbox[1].cipher)
    /\ (pc = "done" /\ call.op = "seal" /\ result.tag = "Ok")
       => /\ HasBox
          /\ Len(trace) = 4
          /\ trace[1] = Event("fill_bytes", SALT_LEN, Drawn(rng.seed, 0, SALT_LEN),
                              <<>>, TRUE)
          /\ trace[2] = Event("fill_bytes", NONCE_LEN,
                              Drawn(rng.seed, SALT_LEN, NONCE_LEN), <<>>, TRUE)
          /\ trace[3] = Event("derive_key", KEY_LEN, pwbox[1].salt, call.password, TRUE)
          /\ trace[4].fn = "cipher_seal"
          /\ trace[4].x = pwbox[1].nonce
          /\ trace[4].y = Origin.key
          /\ pwbox[1].salt = trace[1].x
          /\ pwbox[1].nonce = trace[2].x
    /\ (pc = "done" /\ Opening /\ HasBox /\ Called("cipher_open"))
       => /\ Len(trace) = 2
          /\ trace[1] = Event("derive_key", KEY_LEN, pwbox[1].salt, call.password, TRUE)
          /\ trace[2].fn = "cipher_open"
          /\ trace[2].x = pwbox[1].nonce

C10_Witness ==
    /\ pc = "done" /\ call.op = "seal" /\ result.tag = "Ok" /\ HasBox
    /\ rng.seed = 1
    /\ pwbox[1].salt = Drawn(1, 0, SALT_LEN)
    /\ pwbox[1].nonce = Drawn(1, SALT_LEN, NONCE_LEN)


\* ------------------------------------------- seal and open_into as functions
\* PwBoxInner::seal and PwBoxInner::open_into are generic over the handles;
\* these are the same bodies, run in one go for given handles.
PwBoxInner_seal(kdf, cipher, r, password, message) ==
    LET s1 == Rng_fill_bytes(r, DeriveKey_salt_len(kdf))
        s2 == Rng_fill_bytes(s1.rng, Cipher_nonce_len(cipher))
        d == DeriveKey_derive_key(kdf, Cipher_key_len(cipher), password, s1.bytes)
    IN  IF ~d.ok
        THEN [result |-> Err("Fail", d.cause), salt |-> <<>>, nonce |-> <<>>,
              encrypted |-> [ciphertext |-> <<>>, mac |-> <<>>]]
        ELSE [result |-> Ok(<<>>), salt |-> s1.bytes, nonce |-> s2.bytes,
              encrypted |-> Cipher_seal(cipher, message, s2.bytes, d.buf)]

PwBoxInner_open_into(b, output, password) ==
    IF ~OpenInto_fits(Len(output), PwBoxInner_len(b))
    THEN [result |-> Panic, output |-> output]
    ELSE LET d == DeriveKey_derive_key(b.kdf, Cipher_key_len(b.cipher),
                                       password, b.salt)
         IN  IF ~d.ok
             THEN [result |-> OpenInto_derive_err(d.cause), output |-> output]
             ELSE LET o == Cipher_open(b.cipher, output, b.encrypted, b.nonce, d.buf)
                  IN  [result |-> OpenInto_map_err(o.ok), output |-> o.output]

\* The same container with the other kind of handles: K and CipherObject<C>
\* wrapped into Box<dyn DeriveKey> and Box<dyn ObjectSafeCipher>, or unwrapped.
OtherKdf(h) == KdfHandle(h.kdf, ~h.boxed)
OtherCipher(h) == [h EXCEPT !.boxed = ~@]
OtherForm(b) == [b EXCEPT !.kdf = OtherKdf(@), !.cipher = OtherCipher(@)]

\* C11: the static and the erased handles behave alike.  Whatever a container
\* with one kind of handles reports as salt_len, key_len, nonce_len, mac_len
\* and len, and whatever seal, open and open_into returned for it, the
\* container with the other kind of handles reports and returns the same for
\* the same random bytes, password, data and output buffer.
C11_StaticErasedEquivalent ==
    /\ HasBox
       => LET b == pwbox[1]
              o == OtherForm(b)
          IN  /\ o.kdf.boxed # b.kdf.boxed /\ o.cipher.boxed # b.cipher.boxed
              /\ DeriveKey_salt_len(o.kdf) = DeriveKey_salt_len(b.kdf)
              /\ Cipher_key_len(o.cipher) = Cipher_key_len(b.cipher)
              /\ Cipher_nonce_len(o.cipher) = Cipher_nonce_len(b.cipher)
              /\ Cipher_mac_len(o.cipher) = Cipher_mac_len(b.cipher)
              /\ RestoredPwBox_len(o) = PwBox_len(b)
    /\ (pc = "done" /\ call.op = "seal")
       => LET o == PwBoxInner_seal(OtherKdf(call.kdf), OtherCipher(call.cipher),
                                   [seed |-> rng.seed, pos |-> 0],
                                   call.password, call.message)
          IN  /\ o.result = result
              /\ (o.result.tag = "Ok") = HasBox
              /\ HasBox => /\ o.salt = pwbox[1].salt
                           /\ o.nonce = pwbox[1].nonce
                           /\ o.encrypted = pwbox[1].encrypted
    /\ (pc = "done" /\ call.op = "open_into" /\ HasBox)
       => LET o == PwBoxInner_open_into(OtherForm(pwbox[1]),
                                        CallerBuffer(Len(outbuf)), call.password)
          IN  /\ o.result = result
              /\ o.output = outbuf
    /\ (pc = "done" /\ call.op = "open" /\ HasBox)
       => LET o == PwBoxInner_open_into(OtherForm(pwbox[1]),
                                        Zeros(PwBoxInner_len(pwbox[1])), call.password)
          IN  IF o.result.tag = "Ok" THEN result = Ok(o.output)
              ELSE result = o.result

C11_Witness ==
    /\ pc = "done" /\ call.op = "open_into" /\ HasBox /\ ~IsRestored(pwbox[1])
    /\ call.password = Origin.password
    /\ Len(outbuf) > 0
    /\ result = Ok(<<>>)
    /\ outbuf = Origin.message
    /\ PwBoxInner_open_into(OtherForm(pwbox[1]), CallerBuffer(Len(outbuf)),
                            call.password).output = Origin.message

====
